---- MODULE Spec2Model ----
(***************************************************************************)
(* Model of the ability supervisor of brain/ability.go: the on/off control *)
(* surface, the watcher goroutine (wait), the goroutines dispatched by     *)
(* onActivable and onRunnable, the unbuffered channel chanDone and the     *)
(* event sink ws.                                                          *)
(*                                                                         *)
(* A cancellation context is identified by the number of the on() call     *)
(* that created it (1, 2, ...); 0 is the nil context / nil cancel func.    *)
(* The goroutines started by that on() call carry the same number.         *)
(* isOn() takes the mutex around its single read, so it is one step; every *)
(* other access to a.ctx and a.cancel is made without the mutex and is a   *)
(* step of its own: a store is taken to be atomic, a concurrent read sees  *)
(* the value before or after it.  Activate and ws.send return at once.     *)
(***************************************************************************)
EXTENDS Integers, Sequences, FiniteSets, TLC

\* Bound on the number of sessions (contexts created by on()).
MaxSessions == 2

Callers == {"c1", "c2"}
Sessions == 1..MaxSessions

\* the nil value of a.ctx and a.cancel after newAbility
NoCtx == 0

\* the shapes the implementation value a.a may satisfy
Impls == { [activable |-> TRUE,  runnable |-> FALSE],
           [activable |-> FALSE, runnable |-> TRUE],
           [activable |-> TRUE,  runnable |-> TRUE],
           [activable |-> FALSE, runnable |-> FALSE] }

\* how Run behaves: "block" returns only once its context is done,
\* "self" returns on its own at any time
RunModes == {"block", "self"}
Errors == {"nil", "err"}

VARIABLES
  impl,      \* a.a: which capability shapes the implementation satisfies
  runMode,   \* behaviour of the implementation's Run
  ncallers,  \* number of goroutines of the owner calling on()/off()
  ctx,       \* a.ctx
  cancel,    \* a.cancel
  cancelled, \* contexts whose cancel function was invoked (Err() != nil)
  nextId,    \* number the next context.WithCancel result gets
  pc,        \* position of each caller inside on()/off()
  sess,      \* caller-local result of context.WithCancel in on()
  ret,       \* outcome of the caller's last call
  wpc,       \* position of each watcher goroutine (wait)
  wcancel,   \* cancel function captured by wait's defer statement
  wfrom,     \* task whose value the watcher received from chanDone
  werr,      \* err, the value the watcher received, until it leaves its scope
  wreq,      \* off() had cancelled the watcher's session when it received
  tpc,       \* position of each dispatched goroutine
  tctx,      \* context read by the dispatched goroutine
  terr,      \* value the dispatched goroutine sends on chanDone
  events,    \* what ws.send received, in order, each with the session of
             \* the goroutine that sent it
  calls,     \* calls made on the implementation, in order, each with the
             \* session of the goroutine that made it
  offReq,    \* contexts whose cancel function was invoked by off()
  alt,       \* the calls so far were on(), off(), on(), off(), ...
  errSeen,   \* some call of Run has returned a non-nil error
  panicked   \* the process died on a nil function call

vars == <<impl, runMode, ncallers, ctx, cancel, cancelled, nextId, pc, sess,
          ret, wpc, wcancel, wfrom, werr, wreq, tpc, tctx, terr, events,
          calls, offReq, alt, errSeen, panicked>>

ActiveCallers == IF ncallers = 1 THEN {"c1"} ELSE Callers

\* newAbility: ctx and cancel are nil, nothing runs, nothing was emitted
newAbility ==
  /\ impl \in Impls
  /\ runMode \in RunModes
  /\ (~(impl.runnable /\ ~impl.activable) => runMode = "block")
  /\ ctx = NoCtx
  /\ cancel = NoCtx
  /\ cancelled = {}
  /\ nextId = 1
  /\ pc = [p \in Callers |-> "idle"]
  /\ sess = [p \in Callers |-> NoCtx]
  /\ ret = [p \in Callers |-> "none"]
  /\ wpc = [s \in Sessions |-> "none"]
  /\ wcancel = [s \in Sessions |-> NoCtx]
  /\ wfrom = [s \in Sessions |-> NoCtx]
  /\ werr = [s \in Sessions |-> "nil"]
  /\ wreq = [s \in Sessions |-> FALSE]
  /\ errSeen = FALSE
  /\ tpc = [s \in Sessions |-> "none"]
  /\ tctx = [s \in Sessions |-> NoCtx]
  /\ terr = [s \in Sessions |-> "nil"]
  /\ events = <<>>
  /\ calls = <<>>
  /\ offReq = {}
  /\ alt = TRUE
  /\ panicked = FALSE

\* one goroutine of the owner calls on() and off()
Init == newAbility /\ ncallers = 1

\* two goroutines of the owner call on() and off()
InitConc == newAbility /\ ncallers = 2

\* isOnUnsafe without the test of a.ctx.Err()
isOnUnsafe_IgnoresErr == ctx # NoCtx

\* a.ctx != nil && a.ctx.Err() == nil
isOnUnsafe == ctx # NoCtx /\ ctx \notin cancelled

\* isOn: isOnUnsafe with the mutex held
isOn == isOnUnsafe

\* the outcome of a call is kept for a sole caller only
Outcome(p, r) == IF ncallers = 1 THEN [ret EXCEPT ![p] = r] ELSE ret

OnKinds == {"started", "noop_on"}
OffKinds == {"cancelled", "noop_off"}

\* on() and off() alternate, starting with on()
AltAfterOn(p) == IF ncallers = 1 THEN alt /\ ret[p] \notin OnKinds ELSE alt
AltAfterOff(p) == IF ncallers = 1 THEN alt /\ ret[p] \in OnKinds ELSE alt

\* callers that passed the isOn test of on() and have not yet created a context
Pending == {q \in Callers : pc[q] = "on_ctx"}

------------------------------------------------------------------------------
\* on() without the early return of lines 69-71: a session is started although
\* the ability is on
on_AlreadyOn_Restarts(p) ==
  /\ ~panicked
  /\ p \in ActiveCallers
  /\ pc[p] = "idle"
  /\ isOn
  /\ nextId + Cardinality(Pending) <= MaxSessions
  /\ pc' = [pc EXCEPT ![p] = "on_ctx"]
  /\ ret' = Outcome(p, "started")
  /\ alt' = AltAfterOn(p)
  /\ UNCHANGED <<impl, runMode, ncallers, ctx, cancel, cancelled, nextId,
                 sess, wpc, wcancel, wfrom, werr, wreq, tpc, tctx, terr,
                 events, calls, offReq, errSeen, panicked>>

\* on(), lines 68-71: the ability is already on
on_AlreadyOn(p) ==
  /\ ~panicked
  /\ p \in ActiveCallers
  /\ pc[p] = "idle"
  /\ isOn
  /\ ret' = Outcome(p, "noop_on")
  /\ alt' = AltAfterOn(p)
  /\ UNCHANGED <<impl, runMode, ncallers, ctx, cancel, cancelled, nextId, pc,
                 sess, wpc, wcancel, wfrom, werr, wreq, tpc, tctx, terr,
                 events, calls, offReq, errSeen, panicked>>

\* on(), lines 68-71: the ability is off, on() goes on
on_IsOff(p) ==
  /\ ~panicked
  /\ p \in ActiveCallers
  /\ pc[p] = "idle"
  /\ ~isOn
  /\ nextId + Cardinality(Pending) <= MaxSessions
  /\ pc' = [pc EXCEPT ![p] = "on_ctx"]
  /\ ret' = Outcome(p, "started")
  /\ alt' = AltAfterOn(p)
  /\ UNCHANGED <<impl, runMode, ncallers, ctx, cancel, cancelled, nextId,
                 sess, wpc, wcancel, wfrom, werr, wreq, tpc, tctx, terr,
                 events, calls, offReq, errSeen, panicked>>

\* on(), line 77: context.WithCancel, then the store to a.ctx
on_SetCtx(p) ==
  /\ ~panicked
  /\ pc[p] = "on_ctx"
  /\ sess' = [sess EXCEPT ![p] = nextId]
  /\ nextId' = nextId + 1
  /\ ctx' = nextId
  /\ pc' = [pc EXCEPT ![p] = "on_cancel"]
  /\ UNCHANGED <<impl, runMode, ncallers, cancel, cancelled, ret, wpc,
                 wcancel, wfrom, werr, wreq, tpc, tctx, terr, events, calls,
                 offReq, alt, errSeen, panicked>>

\* on(), line 77: the store to a.cancel
on_SetCancel(p) ==
  /\ ~panicked
  /\ pc[p] = "on_cancel"
  /\ cancel' = sess[p]
  /\ pc' = [pc EXCEPT ![p] = "on_go"]
  /\ UNCHANGED <<impl, runMode, ncallers, ctx, cancelled, nextId, sess, ret,
                 wpc, wcancel, wfrom, werr, wreq, tpc, tctx, terr, events,
                 calls, offReq, alt, errSeen, panicked>>

\* on(), line 80: go a.wait()
on_GoWait(p) ==
  /\ ~panicked
  /\ pc[p] = "on_go"
  /\ wpc' = [wpc EXCEPT ![sess[p]] = "isOn"]
  /\ pc' = [pc EXCEPT ![p] = "on_dispatch"]
  /\ UNCHANGED <<impl, runMode, ncallers, ctx, cancel, cancelled, nextId,
                 sess, ret, wcancel, wfrom, werr, wreq, tpc, tctx, terr,
                 events, calls, offReq, alt, errSeen, panicked>>

\* on(), lines 83-84 and onActivable, lines 97-107: Activate(true) on the
\* caller's goroutine, then the waiter goroutine is started
onActivable(p) ==
  /\ ~panicked
  /\ pc[p] = "on_dispatch"
  /\ impl.activable
  /\ calls' = Append(calls, [m |-> "Activate(true)", sess |-> sess[p]])
  /\ tpc' = [tpc EXCEPT ![sess[p]] = "act_start"]
  /\ pc' = [pc EXCEPT ![p] = "on_send"]
  /\ UNCHANGED <<impl, runMode, ncallers, ctx, cancel, cancelled, nextId,
                 sess, ret, wpc, wcancel, wfrom, werr, wreq, tctx, terr,
                 events, offReq, alt, errSeen, panicked>>

\* the type assertions of on() in the other order: Runnable is tried first
onRunnable_First(p) ==
  /\ ~panicked
  /\ pc[p] = "on_dispatch"
  /\ impl.runnable
  /\ tpc' = [tpc EXCEPT ![sess[p]] = "run_start"]
  /\ pc' = [pc EXCEPT ![p] = "on_send"]
  /\ UNCHANGED <<impl, runMode, ncallers, ctx, cancel, cancelled, nextId,
                 sess, ret, wpc, wcancel, wfrom, werr, wreq, tctx, terr,
                 events, calls, offReq, alt, errSeen, panicked>>

\* on(), lines 85-86 and onRunnable, lines 110-115: the goroutine that will
\* call Run is started
onRunnable(p) ==
  /\ ~panicked
  /\ pc[p] = "on_dispatch"
  /\ ~impl.activable
  /\ impl.runnable
  /\ tpc' = [tpc EXCEPT ![sess[p]] = "run_start"]
  /\ pc' = [pc EXCEPT ![p] = "on_send"]
  /\ UNCHANGED <<impl, runMode, ncallers, ctx, cancel, cancelled, nextId,
                 sess, ret, wpc, wcancel, wfrom, werr, wreq, tctx, terr,
                 events, calls, offReq, alt, errSeen, panicked>>

\* on() that gives up when neither type assertion succeeds: the context it
\* just created is cancelled
on_NoCapability_Cancels(p) ==
  /\ ~panicked
  /\ pc[p] = "on_dispatch"
  /\ ~impl.activable
  /\ ~impl.runnable
  /\ cancelled' = cancelled \cup {sess[p]}
  /\ pc' = [pc EXCEPT ![p] = "on_send"]
  /\ UNCHANGED <<impl, runMode, ncallers, ctx, cancel, nextId, sess, ret, wpc,
                 wcancel, wfrom, werr, wreq, tpc, tctx, terr, events, calls,
                 offReq, alt, errSeen, panicked>>

\* on(), lines 83-87: neither type assertion succeeds
on_NoCapability(p) ==
  /\ ~panicked
  /\ pc[p] = "on_dispatch"
  /\ ~impl.activable
  /\ ~impl.runnable
  /\ pc' = [pc EXCEPT ![p] = "on_send"]
  /\ UNCHANGED <<impl, runMode, ncallers, ctx, cancel, cancelled, nextId,
                 sess, ret, wpc, wcancel, wfrom, werr, wreq, tpc, tctx, terr,
                 events, calls, offReq, alt, errSeen, panicked>>

\* on(), line 93: a.ws.send(WebsocketEventNameAbilityStarted, a.name)
on_SendStarted(p) ==
  /\ ~panicked
  /\ pc[p] = "on_send"
  /\ events' = Append(events, [name |-> "ability.started", sess |-> sess[p],
                               req |-> FALSE])
  /\ pc' = [pc EXCEPT ![p] = "idle"]
  /\ UNCHANGED <<impl, runMode, ncallers, ctx, cancel, cancelled, nextId,
                 sess, ret, wpc, wcancel, wfrom, werr, wreq, tpc, tctx, terr,
                 calls, offReq, alt, errSeen, panicked>>

on(p) ==
  \/ on_AlreadyOn(p)
  \/ on_IsOff(p)
  \/ on_SetCtx(p)
  \/ on_SetCancel(p)
  \/ on_GoWait(p)
  \/ onActivable(p)
  \/ onRunnable(p)
  \/ on_NoCapability(p)
  \/ on_SendStarted(p)

------------------------------------------------------------------------------
\* off() without the early return of lines 147-149: a.cancel() is called
\* although the ability is off
off_AlreadyOff_Cancels(p) ==
  /\ ~panicked
  /\ p \in ActiveCallers
  /\ pc[p] = "idle"
  /\ ~isOn
  /\ ret' = Outcome(p, "noop_off")
  /\ alt' = AltAfterOff(p)
  /\ panicked' = (cancel = NoCtx)
  /\ cancelled' = IF cancel = NoCtx THEN cancelled ELSE cancelled \cup {cancel}
  /\ offReq' = IF cancel = NoCtx THEN offReq ELSE offReq \cup {cancel}
  /\ UNCHANGED <<impl, runMode, ncallers, ctx, cancel, nextId, pc, sess, wpc,
                 wcancel, wfrom, werr, wreq, tpc, tctx, terr, events, calls,
                 errSeen>>

\* off(), lines 146-149: the ability is already off
off_AlreadyOff(p) ==
  /\ ~panicked
  /\ p \in ActiveCallers
  /\ pc[p] = "idle"
  /\ ~isOn
  /\ ret' = Outcome(p, "noop_off")
  /\ alt' = AltAfterOff(p)
  /\ UNCHANGED <<impl, runMode, ncallers, ctx, cancel, cancelled, nextId, pc,
                 sess, wpc, wcancel, wfrom, werr, wreq, tpc, tctx, terr,
                 events, calls, offReq, errSeen, panicked>>

\* off(), lines 146-149: the ability is on, off() goes on
off_IsOn(p) ==
  /\ ~panicked
  /\ p \in ActiveCallers
  /\ pc[p] = "idle"
  /\ isOn
  /\ pc' = [pc EXCEPT ![p] = "off_cancel"]
  /\ ret' = Outcome(p, "cancelled")
  /\ alt' = AltAfterOff(p)
  /\ UNCHANGED <<impl, runMode, ncallers, ctx, cancel, cancelled, nextId,
                 sess, wpc, wcancel, wfrom, werr, wreq, tpc, tctx, terr,
                 events, calls, offReq, errSeen, panicked>>

\* off() that waits until the watcher of the session has returned
off_Cancel_Waits(p) ==
  /\ ~panicked
  /\ pc[p] = "off_cancel"
  /\ cancel # NoCtx
  /\ wpc[cancel] = "done"
  /\ cancelled' = cancelled \cup {cancel}
  /\ offReq' = offReq \cup {cancel}
  /\ pc' = [pc EXCEPT ![p] = "idle"]
  /\ UNCHANGED <<impl, runMode, ncallers, ctx, cancel, nextId, sess, ret, wpc,
                 wcancel, wfrom, werr, wreq, tpc, tctx, terr, events, calls,
                 alt, errSeen, panicked>>

\* off(), line 155: a.cancel()
off_Cancel(p) ==
  /\ ~panicked
  /\ pc[p] = "off_cancel"
  /\ cancel # NoCtx
  /\ cancelled' = cancelled \cup {cancel}
  /\ offReq' = offReq \cup {cancel}
  /\ pc' = [pc EXCEPT ![p] = "idle"]
  /\ UNCHANGED <<impl, runMode, ncallers, ctx, cancel, nextId, sess, ret, wpc,
                 wcancel, wfrom, werr, wreq, tpc, tctx, terr, events, calls,
                 alt, errSeen, panicked>>

\* off(), line 155: a.cancel is still nil, the call panics
off_CancelNil(p) ==
  /\ ~panicked
  /\ pc[p] = "off_cancel"
  /\ cancel = NoCtx
  /\ panicked' = TRUE
  /\ UNCHANGED <<impl, runMode, ncallers, ctx, cancel, cancelled, nextId, pc,
                 sess, ret, wpc, wcancel, wfrom, werr, wreq, tpc, tctx, terr,
                 events, calls, offReq, alt, errSeen>>

off(p) ==
  \/ off_AlreadyOff(p)
  \/ off_IsOn(p)
  \/ off_Cancel(p)

------------------------------------------------------------------------------
\* wait(), lines 119-122: the ability is not on, the watcher returns
wait_NotOn(w) ==
  /\ ~panicked
  /\ wpc[w] = "isOn"
  /\ ~isOn
  /\ wpc' = [wpc EXCEPT ![w] = "done"]
  /\ UNCHANGED <<impl, runMode, ncallers, ctx, cancel, cancelled, nextId, pc,
                 sess, ret, wcancel, wfrom, werr, wreq, tpc, tctx, terr,
                 events, calls, offReq, alt, errSeen, panicked>>

\* wait(), lines 119-122: the ability is on, the watcher goes on
wait_IsOn(w) ==
  /\ ~panicked
  /\ wpc[w] = "isOn"
  /\ isOn
  /\ wpc' = [wpc EXCEPT ![w] = "defer"]
  /\ UNCHANGED <<impl, runMode, ncallers, ctx, cancel, cancelled, nextId, pc,
                 sess, ret, wcancel, wfrom, werr, wreq, tpc, tctx, terr,
                 events, calls, offReq, alt, errSeen, panicked>>

\* wait(), line 125: defer a.cancel() evaluates a.cancel now
wait_Defer(w) ==
  /\ ~panicked
  /\ wpc[w] = "defer"
  /\ wcancel' = [wcancel EXCEPT ![w] = cancel]
  /\ wpc' = [wpc EXCEPT ![w] = "recv"]
  /\ UNCHANGED <<impl, runMode, ncallers, ctx, cancel, cancelled, nextId, pc,
                 sess, ret, wfrom, werr, wreq, tpc, tctx, terr, events, calls,
                 offReq, alt, errSeen, panicked>>

\* the name of the event wait() sends: a.ctx.Err() == nil is read from the
\* field a.ctx after the receive
Classify == IF ctx \notin cancelled THEN "ability.crashed"
                                    ELSE "ability.stopped"

\* wait(), lines 128-140: a.ctx.Err() is tested and the event is sent
wait_Classify(w) ==
  /\ ~panicked
  /\ wpc[w] = "classify"
  /\ events' = Append(events, [name |-> Classify, sess |-> w,
                               req |-> wreq[w]])
  /\ werr' = [werr EXCEPT ![w] = "nil"]
  /\ wpc' = [wpc EXCEPT ![w] = "return"]
  /\ UNCHANGED <<impl, runMode, ncallers, ctx, cancel, cancelled, nextId, pc,
                 sess, ret, wcancel, wfrom, wreq, tpc, tctx, terr, calls,
                 offReq, alt, errSeen, panicked>>

\* wait(), lines 125 and 141: the deferred cancel function runs
wait_Return(w) ==
  /\ ~panicked
  /\ wpc[w] = "return"
  /\ cancelled' = cancelled \cup {wcancel[w]}
  /\ wpc' = [wpc EXCEPT ![w] = "done"]
  /\ UNCHANGED <<impl, runMode, ncallers, ctx, cancel, nextId, pc, sess, ret,
                 wcancel, wfrom, werr, wreq, tpc, tctx, terr, events, calls,
                 offReq, alt, errSeen, panicked>>

\* line 128 with line 105 or 113: chanDone is unbuffered, a send and a
\* receive happen together
chanDone(t, w) ==
  /\ ~panicked
  /\ tpc[t] = "send"
  /\ wpc[w] = "recv"
  /\ tpc' = [tpc EXCEPT ![t] = "done"]
  /\ wpc' = [wpc EXCEPT ![w] = "classify"]
  /\ wfrom' = [wfrom EXCEPT ![w] = t]
  /\ werr' = [werr EXCEPT ![w] = terr[t]]
  /\ terr' = [terr EXCEPT ![t] = "nil"]
  /\ wreq' = [wreq EXCEPT ![w] = w \in offReq]
  /\ UNCHANGED <<impl, runMode, ncallers, ctx, cancel, cancelled, nextId, pc,
                 sess, ret, wcancel, tctx, events, calls, offReq, alt,
                 errSeen, panicked>>

wait(w) ==
  \/ wait_NotOn(w)
  \/ wait_IsOn(w)
  \/ wait_Defer(w)
  \/ wait_Classify(w)
  \/ wait_Return(w)

------------------------------------------------------------------------------
\* onActivable, line 103: the goroutine reads a.ctx and asks for its Done
\* channel
onActivable_Done(t) ==
  /\ ~panicked
  /\ tpc[t] = "act_start"
  /\ tctx' = [tctx EXCEPT ![t] = ctx]
  /\ tpc' = [tpc EXCEPT ![t] = "act_wait"]
  /\ UNCHANGED <<impl, runMode, ncallers, ctx, cancel, cancelled, nextId, pc,
                 sess, ret, wpc, wcancel, wfrom, werr, wreq, terr, events,
                 calls, offReq, alt, errSeen, panicked>>

\* onActivable, lines 103-105: the context is done, Activate(false) is
\* called and nil is about to be sent
onActivable_Deactivate(t) ==
  /\ ~panicked
  /\ tpc[t] = "act_wait"
  /\ tctx[t] \in cancelled
  /\ calls' = Append(calls, [m |-> "Activate(false)", sess |-> t])
  /\ terr' = [terr EXCEPT ![t] = "nil"]
  /\ tpc' = [tpc EXCEPT ![t] = "send"]
  /\ UNCHANGED <<impl, runMode, ncallers, ctx, cancel, cancelled, nextId, pc,
                 sess, ret, wpc, wcancel, wfrom, werr, wreq, tctx, events,
                 offReq, alt, errSeen, panicked>>

\* onRunnable, line 113: the goroutine reads a.ctx and calls Run with it
onRunnable_Run(t) ==
  /\ ~panicked
  /\ tpc[t] = "run_start"
  /\ tctx' = [tctx EXCEPT ![t] = ctx]
  /\ calls' = Append(calls, [m |-> "Run", sess |-> t])
  /\ tpc' = [tpc EXCEPT ![t] = "running"]
  /\ UNCHANGED <<impl, runMode, ncallers, ctx, cancel, cancelled, nextId, pc,
                 sess, ret, wpc, wcancel, wfrom, werr, wreq, terr, events,
                 offReq, alt, errSeen, panicked>>

\* when Run may return: at any time, or only once its context is done
RunMayReturn(t) == runMode = "self" \/ tctx[t] \in cancelled

\* onRunnable, line 113: Run returns an error or nil
onRunnable_Return(t) ==
  /\ ~panicked
  /\ tpc[t] = "running"
  /\ RunMayReturn(t)
  /\ \E e \in Errors :
       /\ terr' = [terr EXCEPT ![t] = e]
       /\ errSeen' = (errSeen \/ e = "err")
  /\ tpc' = [tpc EXCEPT ![t] = "send"]
  /\ UNCHANGED <<impl, runMode, ncallers, ctx, cancel, cancelled, nextId, pc,
                 sess, ret, wpc, wcancel, wfrom, werr, wreq, tctx, events,
                 calls, offReq, alt, panicked>>

task(t) ==
  \/ onActivable_Done(t)
  \/ onActivable_Deactivate(t)
  \/ onRunnable_Run(t)
  \/ onRunnable_Return(t)

------------------------------------------------------------------------------
Next ==
  \/ \E p \in Callers : on(p)
  \/ \E p \in Callers : off(p)
  \/ \E w \in Sessions : wait(w)
  \/ \E t \in Sessions : task(t)
  \/ \E t \in Sessions, w \in Sessions : chanDone(t, w)

\* a sole caller
Spec == Init /\ [][Next]_vars

\* the steps of a call of on() or off() after its isOn test; none of them
\* waits for another goroutine
CallerStep(p) ==
  \/ on_SetCtx(p)
  \/ on_SetCancel(p)
  \/ on_GoWait(p)
  \/ onActivable(p)
  \/ onRunnable(p)
  \/ on_NoCapability(p)
  \/ on_SendStarted(p)
  \/ off_Cancel(p)

\* a sole caller whose goroutine keeps being scheduled; the watchers and the
\* dispatched goroutines may stay behind for ever
SpecFair == Init /\ [][Next]_vars /\ WF_vars(CallerStep("c1"))

\* an implementation that is neither Activable nor Runnable
InitInert == Init /\ ~impl.activable /\ ~impl.runnable

\* what can happen to it: nothing is dispatched, so nothing is ever sent on
\* chanDone
NextInert ==
  \/ on_AlreadyOn("c1")
  \/ on_IsOff("c1")
  \/ on_SetCtx("c1")
  \/ on_SetCancel("c1")
  \/ on_GoWait("c1")
  \/ on_NoCapability("c1")
  \/ on_SendStarted("c1")
  \/ off_AlreadyOff("c1")
  \/ off_IsOn("c1")
  \/ off_Cancel("c1")
  \/ \E w \in Sessions : wait_NotOn(w)
  \/ \E w \in Sessions : wait_IsOn(w)
  \/ \E w \in Sessions : wait_Defer(w)

SpecInert == InitInert /\ [][NextInert]_vars

\* with a second caller, off() can find a.ctx set and a.cancel still nil
NextConc ==
  \/ Next
  \/ \E p \in Callers : off_CancelNil(p)

\* two concurrent callers
SpecConc == InitConc /\ [][NextConc]_vars

TypeOK ==
  /\ ctx \in 0..MaxSessions
  /\ cancel \in 0..MaxSessions
  /\ cancelled \subseteq Sessions
  /\ nextId \in 1..(MaxSessions + 1)

------------------------------------------------------------------------------
\* Where the pair {a.ctx, a.cancel} is accessed.  The mutex is locked in isOn
\* only (lines 61-62); a goroutine is listed at the position from which its
\* next step makes the access.

\* on(), line 77: the stores, made after isOn() has unlocked the mutex
WritesCtx(p) == pc[p] = "on_ctx"
WritesCancel(p) == pc[p] = "on_cancel"

\* reads of a.ctx without the mutex: wait() line 128, the goroutines of
\* onActivable line 103 and onRunnable line 113
ReadsCtxUnlocked ==
  \/ \E w \in Sessions : wpc[w] = "classify"
  \/ \E t \in Sessions : tpc[t] \in {"act_start", "run_start"}

\* reads of a.ctx with the mutex: the isOn() of wait() line 120
ReadsCtxLocked == \E w \in Sessions : wpc[w] = "isOn"

\* reads of a.cancel without the mutex: off() line 155, wait() line 125
ReadsCancelUnlocked ==
  \/ \E q \in Callers : pc[q] = "off_cancel"
  \/ \E w \in Sessions : wpc[w] = "defer"

------------------------------------------------------------------------------
\* Vocabulary of the properties

Created == 1..(nextId - 1)

\* contexts that were created and whose cancel function was never invoked
LiveCtx == {s \in Created : s \notin cancelled}

EventIdx(n, s) == {i \in 1..Len(events) :
                     events[i].name = n /\ events[i].sess = s}
NStarted(s) == Cardinality(EventIdx("ability.started", s))
NStopped(s) == Cardinality(EventIdx("ability.stopped", s))
NCrashed(s) == Cardinality(EventIdx("ability.crashed", s))
NTerminal(s) == NStopped(s) + NCrashed(s)
TotalStarted == Cardinality({i \in 1..Len(events) :
                               events[i].name = "ability.started"})
TotalTerminal == Len(events) - TotalStarted

NCalls(m, s) == Cardinality({i \in 1..Len(calls) :
                               calls[i].m = m /\ calls[i].sess = s})

OnlyRunnable == impl.runnable /\ ~impl.activable

\* some goroutine started by on() can take a step
GoroutineEnabled ==
  \/ \E w \in Sessions : wpc[w] \in {"isOn", "defer", "classify", "return"}
  \/ \E t \in Sessions : tpc[t] \in {"act_start", "run_start"}
  \/ \E t \in Sessions : tpc[t] = "act_wait" /\ tctx[t] \in cancelled
  \/ \E t \in Sessions : tpc[t] = "running" /\ RunMayReturn(t)
  \/ \E t \in Sessions, w \in Sessions : tpc[t] = "send" /\ wpc[w] = "recv"

\* no call is in progress and every goroutine has returned or blocks forever
Quiescent ==
  /\ ~panicked
  /\ \A p \in Callers : pc[p] = "idle"
  /\ ~GoroutineEnabled

\* goroutines blocked in the send on chanDone with no receiver left
BlockedSenders == {t \in Sessions : tpc[t] = "send"}

------------------------------------------------------------------------------
\* C1: concurrent on() calls on an ability that is off result in exactly one
\* session: the isOn test and the creation of the session are one atomic
\* test-and-set, so at most one context is live at a time, and as long as no
\* context was cancelled at most one watcher was started, one call of
\* Activate(true) or Run was made and one ability.started was emitted.
C1_ExactlyOneSession ==
  /\ Cardinality(LiveCtx) <= 1
  /\ cancelled = {} =>
       /\ Cardinality({w \in Sessions : wpc[w] # "none"}) <= 1
       /\ Len(calls) <= 1
       /\ TotalStarted <= 1

\* C2: in every cycle the ability.started event reaches the event sink before
\* the ability.stopped or ability.crashed event of that cycle.
C2_StartedBeforeTerminal ==
  \A i \in 1..Len(events) :
    events[i].name # "ability.started" =>
      \E j \in 1..(i - 1) : /\ events[j].name = "ability.started"
                            /\ events[j].sess = events[i].sess

\* C3: a session whose termination was observed after off() had requested
\* its cancellation is never reported as ability.crashed.
C3_CancelledIsStopped ==
  \A i \in 1..Len(events) :
    events[i].name = "ability.crashed" => ~events[i].req

\* C4: a Runnable that blocks until its context is done and then returns nil:
\* once on() and then off() have run and everything has come to rest, exactly
\* one ability.stopped and no ability.crashed was emitted for the cycle and
\* isOn() is false.
C4_RunnableCleanStop ==
  (OnlyRunnable /\ runMode = "block" /\ ~errSeen /\ Quiescent) =>
    \A s \in Created :
      s \in offReq => /\ NStopped(s) = 1
                      /\ NCrashed(s) = 0
                      /\ (ctx = s => ~isOn)

\* C5: a Runnable that returns on its own, in a cycle without off(): no
\* ability.stopped and at most one ability.crashed is emitted for the cycle,
\* and once everything has come to rest exactly one ability.crashed was
\* emitted and isOn() is false.
C5_RunnableCrash ==
  (OnlyRunnable /\ runMode = "self") =>
    \A s \in Created :
      s \notin offReq =>
        /\ NStopped(s) = 0
        /\ NCrashed(s) <= 1
        /\ Quiescent => (NCrashed(s) = 1 /\ (ctx = s => ~isOn))

\* C6: for an ability that honours cancellation, after on(), off() repeated N
\* times by one caller and once everything has come to rest, there are
\* exactly N ability.started events and N terminal events, no cycle has two
\* terminal events and no goroutine is left blocked.
C6_RoundTrip ==
  (/\ impl.activable \/ (impl.runnable /\ runMode = "block")
   /\ alt
   /\ ret["c1"] \in OffKinds
   /\ Quiescent) =>
    /\ TotalStarted = nextId - 1
    /\ TotalTerminal = nextId - 1
    /\ \A s \in Created : NTerminal(s) <= 1
    /\ BlockedSenders = {}

\* C7: for an Activable ability, once on() has returned Activate(true) was
\* called exactly once for the cycle; after off() and once everything has come
\* to rest, Activate(false) was called exactly once for the cycle and an
\* ability.stopped event was emitted for it.
C7_ActivableCycle ==
  impl.activable =>
    \A s \in Created :
      /\ NStarted(s) = 1 => NCalls("Activate(true)", s) = 1
      /\ NCalls("Activate(false)", s) <= 1
      /\ (s \in offReq /\ Quiescent) =>
           (NCalls("Activate(false)", s) = 1 /\ NStopped(s) >= 1)

\* C8: at most one run attempt is active at any time: never two calls of Run
\* in progress, never two Activable waiters waiting for their context.
C8_OneRunAttempt ==
  Cardinality({t \in Sessions : tpc[t] \in {"running", "act_wait"}}) <= 1

\* the step is the isOn test of a call of on() by p
IsOnCall(p) ==
  /\ pc[p] = "idle"
  /\ ret'[p] \in OnKinds
  /\ <<pc[p], ret[p]>> # <<pc'[p], ret'[p]>>

\* the step is the isOn test of a call of off() by p
IsOffCall(p) ==
  /\ pc[p] = "idle"
  /\ ret'[p] \in OffKinds
  /\ <<pc[p], ret[p]>> # <<pc'[p], ret'[p]>>

\* what a call that is a no-op leaves alone: the context, the cancel
\* function, the goroutines and what they wait for, the events, the calls
NoEffect(p) ==
  /\ pc'[p] = "idle"
  /\ UNCHANGED <<ctx, cancel, cancelled, nextId, sess, wpc, wcancel, tpc,
                 tctx, terr, events, calls, offReq, panicked>>

\* C9: on() called while isOn() is true is a no-op: no new context, no
\* watcher, no call of Activate or Run, no event.
C9_OnWhileOnIsNoop ==
  [][\A p \in Callers : (IsOnCall(p) /\ isOnUnsafe) => NoEffect(p)]_vars

\* a second on() has returned as a no-op: one session, one started event
C9_Witness ==
  /\ ret["c1"] = "noop_on"
  /\ pc["c1"] = "idle"
  /\ isOn
  /\ nextId = 2
  /\ TotalStarted = 1

\* C10: off() called while isOn() is false emits no event, invokes no cancel
\* function, calls no capability method and leaves the context, the cancel
\* function and the completion signal unchanged.
C10_OffWhileOffIsNoop ==
  [][\A p \in Callers : (IsOffCall(p) /\ ~isOnUnsafe) => NoEffect(p)]_vars

\* off() has returned as a no-op on an ability that had already been
\* cancelled
C10_Witness ==
  /\ ret["c1"] = "noop_off"
  /\ pc["c1"] = "idle"
  /\ ctx # NoCtx
  /\ ctx \in cancelled
  /\ ctx \in offReq

\* C11: once on() has returned from the off state, isOn() called next by the
\* same caller returns true, whatever the goroutines started by on() did in
\* between.
C11_OnThenIsOn ==
  (pc["c1"] = "idle" /\ ret["c1"] = "started") => isOn

\* C12: isOn() is false for a new record, and isOn() is true exactly when a
\* context was created for the record whose cancel function has not been
\* invoked.
C12_IsOnIffLiveContext ==
  /\ nextId = 1 => ~isOn
  /\ isOn <=> LiveCtx # {}

\* the record is off again after a cycle: its context exists and is cancelled
C12_Witness ==
  /\ ctx # NoCtx
  /\ ~isOn
  /\ LiveCtx = {}
  /\ pc["c1"] = "idle"

\* the step of off() after its isOn test does nothing but invoke a.cancel
OffOnlyCancels ==
  (pc["c1"] = "off_cancel" /\ pc'["c1"] # "off_cancel") =>
    /\ pc'["c1"] = "idle"
    /\ cancelled' = cancelled \cup {cancel}
    /\ UNCHANGED <<ctx, cancel, nextId, wpc, wcancel, tpc, tctx, terr, events,
                   calls, panicked>>

\* C13: every call of on() and off() returns, also when Run never returns
\* and the watcher never receives, and off() does nothing but invoke the
\* cancel function.
C13_CallsReturn ==
  /\ (pc["c1"] # "idle") ~> (pc["c1"] = "idle")
  /\ [][OffOnlyCancels]_vars

\* off() has returned while Run has not and the watcher still waits
C13_Witness ==
  /\ pc["c1"] = "idle"
  /\ ret["c1"] = "cancelled"
  /\ \E t \in Sessions : tpc[t] = "running" /\ tctx[t] \in offReq
  /\ \E w \in Sessions : wpc[w] = "recv"

\* C14: the watcher of a cycle only ever receives the value sent by the task
\* dispatched in the same cycle, never the value of an earlier cycle's task.
C14_OwnCycleValue ==
  \A w \in Sessions : wfrom[w] \in {NoCtx, w}

\* the i-th call made on the implementation, counted from 1, is
\* Activate(true) when i is odd and Activate(false) when i is even
Alternates ==
  \A i \in 1..Len(calls) :
    calls[i].m = IF i % 2 = 1 THEN "Activate(true)" ELSE "Activate(false)"

LastCallActivates ==
  Len(calls) > 0 /\ calls[Len(calls)].m = "Activate(true)"

\* C18: for an Activable ability and a single caller the calls made on the
\* implementation alternate Activate(true), Activate(false), ..., and once
\* everything has come to rest isOn() is true exactly when the last call was
\* Activate(true).
C18_ActivateAlternates ==
  impl.activable =>
    /\ Alternates
    /\ Quiescent => (isOn <=> LastCallActivates)

\* C19: every dispatched goroutine completes its send on chanDone: once
\* everything has come to rest no sender is left blocked on the channel.
C19_NoBlockedSender ==
  Quiescent => BlockedSenders = {}

\* C15: every access to the pair {a.ctx, a.cancel} is made with the mutex
\* held: in no state does one goroutine store to a field of the pair without
\* the mutex while another goroutine reads or stores to the same field.
C15_PairUnderMutex ==
  \A p \in Callers :
    /\ WritesCtx(p) =>
         /\ ~ReadsCtxUnlocked
         /\ ~ReadsCtxLocked
         /\ \A q \in Callers \ {p} : ~WritesCtx(q)
    /\ WritesCancel(p) =>
         /\ ~ReadsCancelUnlocked
         /\ \A q \in Callers \ {p} : ~WritesCancel(q)

\* C16: for an implementation that is both Activable and Runnable on() calls
\* Activate(true) and never Run; Run is called only for an implementation
\* that is Runnable and not Activable.
C16_ActivableFirst ==
  /\ \A i \in 1..Len(calls) : calls[i].m = "Run" => OnlyRunnable
  /\ impl.activable =>
       \A s \in Created :
         tpc[s] # "none" => /\ NCalls("Activate(true)", s) = 1
                            /\ tpc[s] \notin {"run_start", "running"}

\* on() has returned for an implementation that is both: Activate(true) was
\* called, Run was not
C16_Witness ==
  /\ impl.activable
  /\ impl.runnable
  /\ NStarted(1) = 1
  /\ NCalls("Activate(true)", 1) = 1
  /\ NCalls("Run", 1) = 0

\* C17: for an implementation that is neither Activable nor Runnable, on()
\* from the off state makes isOn() true, starts a watcher and emits
\* ability.started without calling the implementation; the record stays on
\* until off() is called, and off() makes isOn() false.
C17_InertAbility ==
  (~impl.activable /\ ~impl.runnable) =>
    /\ calls = <<>>
    /\ cancelled \subseteq offReq
    /\ (pc["c1"] = "idle" /\ ret["c1"] = "started") =>
         /\ isOn
         /\ wpc[ctx] # "none"
         /\ NStarted(ctx) = 1
    /\ (pc["c1"] = "idle" /\ ret["c1"] = "cancelled") => ~isOn

\* the record was switched on, off and on again
C17_Witness ==
  /\ ~impl.activable
  /\ ~impl.runnable
  /\ pc["c1"] = "idle"
  /\ ret["c1"] = "started"
  /\ isOn
  /\ ctx = 2
  /\ 1 \in offReq
  /\ TotalStarted = 2

====
